---- MODULE Spec2Model ----
(***************************************************************************)
(* Model of the heap allocator of src/mem.c: Mem_Init, Mem_Alloc, Mem_Free *)
(* and Mem_Dump over one mmap'ed region of 4-byte words.                   *)
(*                                                                         *)
(* Addresses are absolute byte addresses.  blk_hdr is one int (4 bytes),   *)
(* so adding n to a blk_hdr pointer moves 4*n bytes, while adding n to a   *)
(* char or void pointer moves n bytes; each operator below keeps the       *)
(* scaling its source line has.                                            *)
(*                                                                         *)
(* mem holds only the words that were written (or, outside the region,     *)
(* observed): the region comes zero-filled from mmap, so an in-region word *)
(* that is not in DOMAIN mem reads as 0.  An access outside the region is  *)
(* undefined behaviour: it either faults (the process is gone) or touches  *)
(* foreign memory whose content is arbitrary (a value of OobValues, fixed  *)
(* from the first read on).                                                *)
(***************************************************************************)
EXTENDS Integers, Sequences, FiniteSets, TLC

\* ---------------------------------------------------------------- bounds
\* largest Mem_Init argument, in pages
MaxPages == 2
\* number of foreign (out-of-region) words one run may touch before the
\* next out-of-region access can only fault
MaxForeign == 1

\* ------------------------------------------------------------- constants
\* getpagesize()
PageSize == 4096
\* the C null pointer
NULL == 0
\* sizeof(blk_hdr): the scale of blk_hdr* arithmetic
HdrBytes == 4

\* addresses mmap may return (page aligned)
MapAddrs == {16 * PageSize, 64 * PageSize}
\* arguments given to Mem_Init: a rejected one, and sizes that need and
\* do not need rounding up to a page
InitArgs == {0, PageSize} \cup {(k - 1) * PageSize + 1 : k \in 1..MaxPages}
\* arguments given to Mem_Alloc: a negative size, 0, a small size, and the
\* sizes that (after rounding) fit the initial block exactly
AllocSizes == {-4, 0, 4} \cup {k * PageSize - 15 : k \in 1..MaxPages}
\* contents a foreign word may turn out to have: a zero word, a word that
\* looks like the end mark, a busy header of size 8 whose predecessor is
\* free, a free header of size 8 whose predecessor is busy
OobValues == {0, 1, 9, 10}

VARIABLES
    allocated_once,  \* static int of Mem_Init
    first_blk,       \* global blk_hdr *first_blk
    space_ptr,       \* base of the mapped region (NULL before Mem_Init)
    region,          \* bytes mapped (alloc_size of the mmap call), 0 before
    mem,             \* written / observed words: address -> int
    pc,              \* idle, scan (in the loop of Mem_Alloc), finish
                     \* (after the loop), crashed
    size,            \* Mem_Alloc: the parameter after rounding
    ptr,             \* Mem_Alloc: scan pointer
    minSize,         \* Mem_Alloc: local
    minBlock,        \* Mem_Alloc: local
    ret,             \* return value of the last call that returned
    lastOp,          \* name of the last call made
    lastArg,         \* its argument
    blk,             \* header the last successful Mem_Alloc allocated at
    live,            \* returned and not yet freed pointers -> requested size
    freed,           \* pointers passed to Mem_Free since the last Mem_Alloc
    dbl,             \* the last Mem_Free was given a pointer of freed
    mem0,            \* mem when the last call was entered
    initArg,         \* argument of the Mem_Init call that succeeded
    lastDump         \* <<busy_size, free_size>> last printed by Mem_Dump

vars == <<allocated_once, first_blk, space_ptr, region, mem, pc, size, ptr,
          minSize, minBlock, ret, lastOp, lastArg, blk, live, freed, dbl,
          mem0, initArg, lastDump>>

\* ------------------------------------------------------------ C arithmetic
\* C integer division and remainder (truncation toward zero), divisor > 0
CDiv(a, b) == IF a >= 0 THEN a \div b ELSE -((-a) \div b)
CRem(a, b) == a - b * CDiv(a, b)
\* w & 1, w & 2, w & 3 on a two's complement int
And1(w) == w % 2
And3(w) == w % 4
And2(w) == And3(w) - And1(w)

\* the fields packed in a header word
SizeOf(w) == w - And3(w)
IsAlloc(w) == And1(w) = 1
PrevAlloc(w) == And2(w) = 2

\* ------------------------------------------------------------------ memory
EmptyMem == [a \in {} |-> 0]
InRegion(a) == space_ptr # NULL /\ a >= space_ptr /\ a < space_ptr + region
Foreign == {a \in DOMAIN mem : ~InRegion(a)}
\* an address the program can access without faulting for sure
Mapped(a) == InRegion(a) \/ a \in DOMAIN mem
Load(m, a) == IF a \in DOMAIN m THEN m[a] ELSE 0
Store(m, a, v) == [x \in DOMAIN m \cup {a} |-> IF x = a THEN v ELSE m[x]]

\* the null page is never mapped; any other address outside the region may
\* belong to some other mapping of the process
MayBeMapped(a) == a >= PageSize

\* ---------------------------------------------------------------- Mem_Init
\* variant: the padding is not reduced modulo the page size, so a size that
\* is already a multiple of the page size grows by one page
RoundedRegion_ExtraPage(sizeOfRegion) ==
    sizeOfRegion + (PageSize - (sizeOfRegion % PageSize))
\* sizeOfRegion rounded up to a multiple of the page size
RoundedRegion(sizeOfRegion) ==
    LET padsize == (PageSize - (sizeOfRegion % PageSize)) % PageSize
    IN  sizeOfRegion + padsize
\* variant: the first header is put a whole double word after the base
FirstBlk_DoubleWord(base) == base + 8
\* first_blk = (blk_hdr*) space_ptr + 1
FirstBlk(base) == base + HdrBytes * 1
\* end_mark = (blk_hdr*)((void*)first_blk + alloc_size)
EndMarkAddr(first, alloc_size) == first + alloc_size
\* variant: the footer offset is added to the blk_hdr pointer without the
\* cast to char*, so it is scaled by the header width
FooterAddr_Scaled(first, alloc_size) == first + 4 * (alloc_size - 4)
\* footer = (blk_hdr*)((char*)first_blk + alloc_size - 4)
FooterAddr(first, alloc_size) == first + alloc_size - 4
\* end_mark->size_status = 1
EndMarkWord == 1
\* variant: the end mark is never written and stays a zero word
InitWords_NoEndMark(first, alloc_size) ==
    LET m1 == Store(EmptyMem, first, alloc_size)
        m2 == Store(m1, first, Load(m1, first) + 2)
    IN  Store(m2, FooterAddr(first, alloc_size), alloc_size)
\* the words Mem_Init writes into the fresh region
InitWords(first, alloc_size) ==
    LET m1 == Store(EmptyMem, first, alloc_size)
        m2 == Store(m1, first, Load(m1, first) + 2)
        m3 == Store(m2, EndMarkAddr(first, alloc_size), EndMarkWord)
    IN  Store(m3, FooterAddr(first, alloc_size), alloc_size)

Init ==
    /\ allocated_once = 0
    /\ first_blk = NULL
    /\ space_ptr = NULL
    /\ region = 0
    /\ mem = EmptyMem
    /\ pc = "idle"
    /\ size = 0
    /\ ptr = NULL
    /\ minSize = -1
    /\ minBlock = NULL
    /\ ret = 0
    /\ lastOp = "none"
    /\ lastArg = 0
    /\ blk = NULL
    /\ live = EmptyMem
    /\ freed = {}
    /\ dbl = FALSE
    /\ mem0 = EmptyMem
    /\ initArg = 0
    /\ lastDump = <<0, 0>>

\* variant: the allocated_once test is missing
InitRejected_NoOnce(once, sizeOfRegion, mapOk) == sizeOfRegion <= 0 \/ ~mapOk
\* the early returns of Mem_Init: called before, size not positive, open or
\* mmap failed
InitRejected(once, sizeOfRegion, mapOk) ==
    once # 0 \/ sizeOfRegion <= 0 \/ ~mapOk

\* int Mem_Init(int sizeOfRegion); mapOk: open and mmap both succeed
MemInit ==
    /\ pc = "idle"
    /\ \E sizeOfRegion \in InitArgs, base \in MapAddrs, mapOk \in BOOLEAN :
        /\ lastOp' = "Mem_Init"
        /\ lastArg' = sizeOfRegion
        /\ mem0' = mem
        /\ IF InitRejected(allocated_once, sizeOfRegion, mapOk)
           THEN /\ ret' = -1
                /\ UNCHANGED <<allocated_once, first_blk, space_ptr, region,
                               mem, initArg>>
           ELSE LET alloc_size == RoundedRegion(sizeOfRegion)
                    first == FirstBlk(base)
                IN  /\ allocated_once' = 1
                    /\ space_ptr' = base
                    /\ region' = alloc_size
                    /\ first_blk' = first
                    /\ mem' = InitWords(first, alloc_size - 8)
                    /\ initArg' = sizeOfRegion
                    /\ ret' = 0
    /\ UNCHANGED <<pc, size, ptr, minSize, minBlock, blk, live, freed, dbl,
                   lastDump>>

\* ---------------------------------------------------------------- Mem_Free
\* the body of Mem_Free is commented out: the function is return 0
FreeResult(p) == 0
\* the pointers a caller hands to Mem_Free: NULL, pointers it got from
\* Mem_Alloc (live or already freed), and words next to them
FreeArgs == {NULL} \cup DOMAIN live \cup freed
                   \cup {p + 4 : p \in DOMAIN live}

MemFree ==
    /\ pc = "idle"
    /\ \E p \in FreeArgs :
        /\ lastOp' = "Mem_Free"
        /\ lastArg' = p
        /\ ret' = FreeResult(p)
        /\ dbl' = (p \in freed)
        /\ live' = [q \in DOMAIN live \ {p} |-> live[q]]
        /\ freed' = IF p \in DOMAIN live THEN freed \cup {p} ELSE freed
    /\ mem0' = mem
    /\ UNCHANGED <<allocated_once, first_blk, space_ptr, region, mem, pc,
                   size, ptr, minSize, minBlock, blk, initArg, lastDump>>

\* ---------------------------------------------------------------- Mem_Dump
\* the loop of Mem_Dump: <<busy_size, free_size, reached the end mark>>;
\* the third component is FALSE when the walk leaves the region or stops
\* advancing
RECURSIVE DumpWalk(_, _, _, _)
DumpWalk(m, current, busy_size, free_size) ==
    IF ~InRegion(current) THEN <<busy_size, free_size, FALSE>>
    ELSE IF Load(m, current) = 1 THEN <<busy_size, free_size, TRUE>>
    ELSE LET w == Load(m, current)
             is_busy == And1(w) = 1
             t1 == IF is_busy THEN w - 1 ELSE w
             t_size == IF And2(t1) = 2 THEN t1 - 2 ELSE t1
         IN  IF t_size <= 0 THEN <<busy_size, free_size, FALSE>>
             ELSE DumpWalk(m, current + t_size,
                           IF is_busy THEN busy_size + t_size ELSE busy_size,
                           IF is_busy THEN free_size ELSE free_size + t_size)
\* the totals Mem_Dump prints
DumpTotals(m, first) ==
    LET r == DumpWalk(m, first, 0, 0) IN <<r[1], r[2]>>
\* variant: the size stripped of its status bits is written back to the
\* header instead of being kept in the local t_size
DumpMem_StripBits(m, first) ==
    IF first = NULL THEN m ELSE Store(m, first, SizeOf(Load(m, first)))
\* the memory after Mem_Dump: it stores to its locals and to stdout only
DumpMem(m, first) == m

MemDump ==
    /\ pc = "idle"
    /\ lastOp' = "Mem_Dump"
    /\ lastArg' = 0
    /\ mem0' = mem
    /\ IF first_blk = NULL
       THEN pc' = "crashed" /\ UNCHANGED lastDump
       ELSE pc' = pc /\ lastDump' = DumpTotals(mem, first_blk)
    /\ mem' = IF first_blk = NULL THEN mem ELSE DumpMem(mem, first_blk)
    /\ UNCHANGED <<allocated_once, first_blk, space_ptr, region, size,
                   ptr, minSize, minBlock, ret, blk, live, freed, dbl,
                   initArg>>

\* --------------------------------------------------------------- Mem_Alloc
\* size += 4; if (size % 8 != 0) size = (size / 8 + 1) * 8
RoundedSize(n) ==
    LET s == n + 4
    IN  IF CRem(s, 8) # 0 THEN (CDiv(s, 8) + 1) * 8 ELSE s
\* ptr + n on a blk_hdr pointer
Advance(p, n) == p + HdrBytes * n
\* return (void*)(ptr + 4)
PayloadOf(h) == Advance(h, 4)
\* the scan pointer after a block that is skipped (busy, or free and too
\* small): the header word minus its status bits is added to the pointer
SkipBusy(p, w) == IF And3(w) = 3 THEN Advance(p, w - 3) ELSE Advance(p, w - 1)
SkipSmall(p, w) == IF And2(w) = 2 THEN Advance(p, w - 2) ELSE Advance(p, w)
\* the candidate test of the scan: free and bigger than requested
IsBigger(w, sz) == w > sz + 2
\* free and equal to requested
IsExact(w, sz) == w = sz \/ w - 2 = sz
\* the header word of a block that becomes allocated in place
ExactWord(w) == w + 1

\* variant: the test for a zero size is missing
ZeroRequest_Never(n) == FALSE
\* if (size == 0) return NULL
ZeroRequest(n) == n = 0

\* entry of Mem_Alloc, up to the first test of the loop
MemAllocCall ==
    /\ pc = "idle"
    /\ \E n \in AllocSizes :
        /\ lastOp' = "Mem_Alloc"
        /\ lastArg' = n
        /\ IF ZeroRequest(n)
           THEN /\ ret' = NULL
                /\ UNCHANGED <<pc, size, ptr, minSize, minBlock>>
           ELSE /\ pc' = "scan"
                /\ size' = RoundedSize(n)
                /\ ptr' = first_blk
                /\ minSize' = -1
                /\ minBlock' = first_blk
                /\ UNCHANGED ret
    /\ mem0' = mem
    /\ freed' = {}
    /\ dbl' = FALSE
    /\ blk' = NULL
    /\ UNCHANGED <<allocated_once, first_blk, space_ptr, region, mem, live,
                   initArg, lastDump>>

\* the scan dereferences a pointer outside the region and the access faults
AllocFault ==
    /\ pc = "scan"
    /\ ~Mapped(ptr)
    /\ pc' = "crashed"
    /\ UNCHANGED <<allocated_once, first_blk, space_ptr, region, mem, size,
                   ptr, minSize, minBlock, ret, lastOp, lastArg, blk, live,
                   freed, dbl, mem0, initArg, lastDump>>

\* one evaluation of the loop test and, when it holds, one run of the body
AllocScan ==
    /\ pc = "scan"
    /\ Mapped(ptr) \/ (MayBeMapped(ptr) /\ Cardinality(Foreign) < MaxForeign)
    /\ \E w \in (IF Mapped(ptr) THEN {Load(mem, ptr)} ELSE OobValues),
          writable \in (IF InRegion(ptr) THEN {TRUE} ELSE BOOLEAN) :
        LET m1 == IF InRegion(ptr) THEN mem ELSE Store(mem, ptr, w)
        IN  IF w = 1
            THEN \* while (ptr->size_status != 1) fails
                 /\ pc' = "finish"
                 /\ mem' = m1
                 /\ UNCHANGED <<ptr, minSize, minBlock, ret, blk, live,
                                lastDump>>
            ELSE IF And1(w) = 1
            THEN \* current block is allocated: skip it
                 /\ ptr' = SkipBusy(ptr, w)
                 /\ lastDump' = IF And3(w) = 3 THEN lastDump
                                ELSE DumpTotals(m1, first_blk)
                 /\ mem' = IF And3(w) = 3 THEN m1
                           ELSE DumpMem(m1, first_blk)
                 /\ UNCHANGED <<pc, minSize, minBlock, ret, blk, live>>
            ELSE IF IsBigger(w, size)
            THEN \* free and bigger than requested: ptr is not advanced
                 /\ IF minSize = -1
                    THEN minBlock' = ptr /\ minSize' = w - 2
                    ELSE IF And2(w) = 2
                    THEN IF w - 2 < minSize
                         THEN minSize' = w - 2 /\ minBlock' = ptr
                         ELSE UNCHANGED <<minSize, minBlock>>
                    ELSE IF w < minSize
                         THEN minSize' = w /\ minBlock' = ptr
                         ELSE UNCHANGED <<minSize, minBlock>>
                 /\ mem' = m1
                 /\ UNCHANGED <<pc, ptr, ret, blk, live, lastDump>>
            ELSE IF IsExact(w, size)
            THEN \* free and equal to requested: allocate in place
                 IF writable
                 THEN /\ mem' = Store(m1, ptr, ExactWord(w))
                      /\ ret' = PayloadOf(ptr)
                      /\ blk' = ptr
                      /\ live' = Store(live, PayloadOf(ptr), lastArg)
                      /\ pc' = "idle"
                      /\ UNCHANGED <<ptr, minSize, minBlock, lastDump>>
                 ELSE /\ pc' = "crashed"
                      /\ mem' = m1
                      /\ UNCHANGED <<ptr, minSize, minBlock, ret, blk, live,
                                     lastDump>>
            ELSE \* free but smaller than requested: skip it
                 /\ ptr' = SkipSmall(ptr, w)
                 /\ mem' = m1
                 /\ UNCHANGED <<pc, minSize, minBlock, ret, blk, live,
                                lastDump>>
    /\ UNCHANGED <<allocated_once, first_blk, space_ptr, region, size, lastOp,
                   lastArg, freed, dbl, mem0, initArg>>

\* the words written when minBlock is split
SplitWords(m, mb, sz, ms) ==
    LET m1 == Store(m, mb, IF And2(Load(m, mb)) = 2 THEN sz + 3 ELSE sz + 1)
        nextBlock == Advance(mb, sz)
        m2 == Store(m1, nextBlock, ms - sz + 2)
        footer == Advance(mb, ms - 4)
    IN  Store(m2, footer, ms - sz)

\* after the loop: split the minimum block, or return NULL
AllocFinish ==
    /\ pc = "finish"
    /\ pc' = "idle"
    /\ IF minSize # -1
       THEN /\ mem' = SplitWords(mem, minBlock, size, minSize)
            /\ ret' = PayloadOf(minBlock)
            /\ blk' = minBlock
            /\ live' = Store(live, PayloadOf(minBlock), lastArg)
       ELSE /\ ret' = NULL
            /\ UNCHANGED <<mem, blk, live>>
    /\ UNCHANGED <<allocated_once, first_blk, space_ptr, region, size, ptr,
                   minSize, minBlock, lastOp, lastArg, freed, dbl, mem0,
                   initArg, lastDump>>

Next ==
    \/ MemInit
    \/ MemAllocCall
    \/ AllocScan
    \/ AllocFault
    \/ AllocFinish
    \/ MemFree
    \/ MemDump

Spec == Init /\ [][Next]_vars

\* the process is single-threaded and keeps running: a call that can take a
\* step takes it
SpecFair ==
    Spec /\ WF_vars(AllocScan) /\ WF_vars(AllocFault) /\ WF_vars(AllocFinish)

\* ------------------------------------------------- reading the block chain
Range(f) == {f[i] : i \in DOMAIN f}

\* the headers met from a by stepping by each header's size, the terminating
\* zero-size block included; the walk stops short when it leaves the region
RECURSIVE ChainFrom(_, _)
ChainFrom(m, a) ==
    IF ~InRegion(a) THEN << >>
    ELSE IF SizeOf(Load(m, a)) <= 0 THEN <<a>>
    ELSE <<a>> \o ChainFrom(m, a + SizeOf(Load(m, a)))
Chain(m) == ChainFrom(m, first_blk)
\* the chain ends on the end mark
EndsOnMark(m) ==
    /\ Len(Chain(m)) >= 1
    /\ Load(m, Chain(m)[Len(Chain(m))]) = 1
\* the blocks proper: every header of the chain but the terminator
Blocks(m) == {Chain(m)[i] : i \in 1..(Len(Chain(m)) - 1)}
FreeBlocks(m) == {h \in Blocks(m) : ~IsAlloc(Load(m, h))}
RECURSIVE SumSizes(_, _)
SumSizes(m, hs) ==
    IF hs = {} THEN 0
    ELSE LET h == CHOOSE x \in hs : TRUE
         IN  SizeOf(Load(m, h)) + SumSizes(m, hs \ {h})

\* Mem_Init has succeeded and no call is in progress
AtRest == pc = "idle" /\ allocated_once = 1
\* n rounded up to the page size, and n + 4 rounded up to 8, as the
\* specification words them
PageRound(n) == ((n + PageSize - 1) \div PageSize) * PageSize
Needed(n) == ((n + 4 + 7) \div 8) * 8
\* size of the free block Mem_Init installs
InitialBlockSize == region - 8
\* the last call was a Mem_Alloc that returned a pointer
AllocReturned == pc = "idle" /\ lastOp = "Mem_Alloc" /\ ret # NULL

\* ------------------------------------------------------------------ claims

\* C1: once every pointer returned by Mem_Alloc has been passed to Mem_Free,
\* the chain is exactly one free block of the size Mem_Init installed,
\* followed by the end mark.
C1_RoundTrip ==
    (AtRest /\ DOMAIN live = {}) =>
        /\ Len(Chain(mem)) = 2
        /\ EndsOnMark(mem)
        /\ ~IsAlloc(Load(mem, first_blk))
        /\ SizeOf(Load(mem, first_blk)) = InitialBlockSize

\* C2: after Mem_Init and every later call, stepping from first_blk by the
\* header sizes stays in the region and lands exactly on the end mark, and
\* the block sizes plus the 8 bytes of padding and end mark add up to the
\* Mem_Init argument rounded up to the page size.
C2_ChainTiles ==
    AtRest =>
        /\ EndsOnMark(mem)
        /\ \A h \in Blocks(mem) : SizeOf(Load(mem, h)) > 0
        /\ SumSizes(mem, Blocks(mem)) + 8 = PageRound(initArg)
        /\ first_blk + SumSizes(mem, Blocks(mem)) = space_ptr + region - 4
\* an allocation was made inside the region and the chain was walked after it
C2_Witness ==
    /\ AtRest /\ AllocReturned /\ blk = first_blk
    /\ Len(Chain(mem)) = 2

\* C3: after every call no two blocks adjacent in the chain (the end mark
\* counted as the last block) are both free.
C3_NoAdjacentFree ==
    AtRest =>
        \A i \in 1..(Len(Chain(mem)) - 1) :
            ~(/\ ~IsAlloc(Load(mem, Chain(mem)[i]))
              /\ ~IsAlloc(Load(mem, Chain(mem)[i + 1])))
\* a free block stands next to the end mark after a Mem_Free call returned
C3_Witness ==
    /\ AtRest /\ lastOp = "Mem_Free" /\ ret = 0
    /\ Len(Chain(mem)) = 2
    /\ ~IsAlloc(Load(mem, Chain(mem)[1]))
    /\ IsAlloc(Load(mem, Chain(mem)[2]))

\* C4: after every call, every block but the first, and the end mark, has
\* its prev_allocated bit set exactly when the block before it is allocated.
C4_PrevBitMatches ==
    AtRest =>
        \A i \in 2..Len(Chain(mem)) :
            PrevAlloc(Load(mem, Chain(mem)[i]))
                <=> IsAlloc(Load(mem, Chain(mem)[i - 1]))

\* C5: after every call, the last word of every free block holds the size of
\* the block's header with both status bits cleared.
C5_FooterMatches ==
    AtRest =>
        \A h \in FreeBlocks(mem) :
            Load(mem, h + SizeOf(Load(mem, h)) - 4) = SizeOf(Load(mem, h))
\* a free block with its footer, seen after a Mem_Alloc call scanned the
\* chain and returned NULL
C5_Witness ==
    /\ AtRest /\ lastOp = "Mem_Alloc" /\ lastArg # 0 /\ ret = NULL
    /\ FreeBlocks(mem) # {}
    /\ \A h \in FreeBlocks(mem) : SizeOf(Load(mem, h)) >= 8

\* C6: a non-NULL pointer returned by Mem_Alloc is a multiple of 8 from the
\* region base, is the header address plus 4, and lies strictly inside the
\* region.
C6_PayloadAligned ==
    (AtRest /\ AllocReturned) =>
        /\ (ret - space_ptr) % 8 = 0
        /\ ret = blk + 4
        /\ ret > space_ptr /\ ret < space_ptr + region

\* C7: the payload ranges [p, p + requested) of two live allocations are
\* disjoint and none contains the header of a block of the chain.
C7_NoAlias ==
    AtRest =>
        /\ \A p, q \in DOMAIN live :
               p # q => (p + live[p] <= q \/ q + live[q] <= p)
        /\ \A p \in DOMAIN live : \A h \in Range(Chain(mem)) :
               ~(p <= h /\ h < p + live[p])

\* C8: a successful Mem_Alloc(size), size > 0, allocates from a free block of
\* the chain whose size is the smallest one >= needed, the lowest such block
\* by address.
C8_BestFit ==
    (AtRest /\ AllocReturned /\ lastArg > 0) =>
        LET fits == {h \in FreeBlocks(mem0) :
                        SizeOf(Load(mem0, h)) >= Needed(lastArg)}
        IN  /\ blk \in fits
            /\ \A h \in fits :
                   /\ SizeOf(Load(mem0, blk)) <= SizeOf(Load(mem0, h))
                   /\ SizeOf(Load(mem0, h)) = SizeOf(Load(mem0, blk))
                          => blk <= h

\* C9: the second of two Mem_Free(p) calls with no Mem_Alloc in between
\* returns -1 and leaves the chain as the first call left it.
C9_DoubleFree ==
    (AtRest /\ lastOp = "Mem_Free" /\ dbl) => (ret = -1 /\ mem = mem0)

\* C10: Mem_Free(ptr) returns -1 and leaves the chain unchanged when ptr is
\* NULL or not 8-byte aligned relative to the region base.
C10_FreeRejects ==
    (AtRest /\ lastOp = "Mem_Free"
        /\ (lastArg = NULL \/ (lastArg - space_ptr) % 8 # 0))
    => (ret = -1 /\ mem = mem0)

\* the words of the region are the same in m and n
SameRegion(m, n) ==
    \A a \in DOMAIN m \cup DOMAIN n : InRegion(a) => Load(m, a) = Load(n, a)
\* the free blocks of m that can hold a request of n bytes
Fits(m, n) == {h \in FreeBlocks(m) : SizeOf(Load(m, h)) >= Needed(n)}

\* C11: when no free block of the chain has size >= needed, Mem_Alloc(size)
\* returns NULL and leaves every header and footer word as it was.
C11_Exhausted ==
    (AtRest /\ lastOp = "Mem_Alloc" /\ lastArg # 0 /\ Fits(mem0, lastArg) = {})
        => (ret = NULL /\ SameRegion(mem, mem0))

\* C12: on an initialised heap every iteration of the scan of Mem_Alloc
\* moves the scan pointer forward (so that each block is visited at most
\* once and the scan ends at the end mark).
C12_ScanAdvances ==
    [][(allocated_once = 1 /\ lastArg > 0 /\ pc = "scan" /\ pc' = "scan")
          => ptr' > ptr]_vars

\* C13: a Mem_Init call made after one that succeeded returns -1 and leaves
\* first_blk and the block chain unchanged, whatever its argument: Mem_Init
\* succeeds at most once.
C13_InitOnce ==
    [][(allocated_once = 1 /\ pc = "idle" /\ lastOp' = "Mem_Init")
       => (/\ ret' = -1
           /\ first_blk' = first_blk
           /\ space_ptr' = space_ptr
           /\ region' = region
           /\ mem' = mem
           /\ allocated_once' = 1)]_vars
\* a second Mem_Init with a valid size was turned down
C13_Witness ==
    /\ AtRest /\ lastOp = "Mem_Init" /\ lastArg > 0 /\ ret = -1
    /\ mem = mem0 /\ EndsOnMark(mem)

\* C14: Mem_Alloc(0) returns NULL at once and leaves every word of the chain
\* unchanged.
C14_ZeroAlloc ==
    (lastOp = "Mem_Alloc" /\ lastArg = 0)
        => (pc = "idle" /\ ret = NULL /\ mem = mem0)
\* Mem_Alloc(0) was called on an initialised heap
C14_Witness ==
    /\ AtRest /\ lastOp = "Mem_Alloc" /\ lastArg = 0 /\ ret = NULL
    /\ FreeBlocks(mem) # {}

\* the header in chain c that stands before / after header h (h when none)
PrevOf(c, h) ==
    IF \E i \in 2..Len(c) : c[i] = h
    THEN c[(CHOOSE i \in 2..Len(c) : c[i] = h) - 1] ELSE h
NextOf(c, h) ==
    IF \E i \in 1..(Len(c) - 1) : c[i] = h
    THEN c[(CHOOSE i \in 1..(Len(c) - 1) : c[i] = h) + 1] ELSE h
\* the size a block has when it is free, else 0
FreeSize(m, h) == IF IsAlloc(Load(m, h)) THEN 0 ELSE SizeOf(Load(m, h))
\* the last Mem_Free call was given a pointer that was live
FreedLive == lastOp = "Mem_Free" /\ lastArg \in freed /\ ~dbl

\* C15: Mem_Free(p) on a live pointer returns 0, and afterwards the bytes of
\* the block of p belong to one free block whose size is the size of that
\* block plus the sizes of its free neighbours, with a matching footer.
C15_FreeCoalesces ==
    (AtRest /\ FreedLive) =>
        /\ ret = 0
        /\ \E b \in Blocks(mem0) :
            /\ b <= lastArg /\ lastArg < b + SizeOf(Load(mem0, b))
            /\ LET c == Chain(mem0)
                   pr == PrevOf(c, b)
                   nx == NextOf(c, b)
                   before == IF pr = b THEN 0 ELSE FreeSize(mem0, pr)
                   after == IF nx = b THEN 0 ELSE FreeSize(mem0, nx)
                   total == before + SizeOf(Load(mem0, b)) + after
                   h == b - before
               IN  /\ h \in FreeBlocks(mem)
                   /\ SizeOf(Load(mem, h)) = total
                   /\ Load(mem, h + total - 4) = total

\* the scan has selected a free block at least 8 bytes bigger than needed
Selected ==
    /\ allocated_once = 1 /\ pc = "scan" /\ lastArg > 0
    /\ minSize # -1
    /\ minBlock \in FreeBlocks(mem)
    /\ SizeOf(Load(mem, minBlock)) >= Needed(lastArg) + 8
\* the call has returned and the selected block is split
SplitDone ==
    /\ AllocReturned /\ blk = minBlock
    /\ IsAlloc(Load(mem, blk))
    /\ SizeOf(Load(mem, blk)) = Needed(lastArg)
    /\ PrevAlloc(Load(mem, blk)) = PrevAlloc(Load(mem0, blk))
    /\ LET old == SizeOf(Load(mem0, blk))
           rest == blk + Needed(lastArg)
       IN  /\ Load(mem, rest) = (old - Needed(lastArg)) + 2
           /\ Load(mem, blk + old - 4) = old - Needed(lastArg)
           /\ ~PrevAlloc(Load(mem, blk + old))

\* C16: when Mem_Alloc selects a free block at least 8 bytes bigger than
\* needed, the call returns with that block split: an allocated block of
\* size needed with the old prev_allocated bit, then a free block of the
\* remaining size with prev_allocated set and a footer in the last word of
\* the old block, the block after it keeping prev_allocated clear.
C16_Split == Selected ~> SplitDone

\* C17: when Mem_Alloc selects a free block of size needed (or less than 8
\* bytes more), the block becomes allocated as a whole: same size and
\* prev_allocated bit, allocated bit set, no new block, and the block after
\* it gets its prev_allocated bit set.
C17_ExactFit ==
    (AtRest /\ AllocReturned /\ lastArg > 0 /\ blk \in FreeBlocks(mem0)
        /\ SizeOf(Load(mem0, blk)) < Needed(lastArg) + 8)
    => /\ Load(mem, blk) = Load(mem0, blk) + 1
       /\ Chain(mem) = Chain(mem0)
       /\ PrevAlloc(Load(mem, blk + SizeOf(Load(mem0, blk))))

\* the last call was a Mem_Init that succeeded
InitDone == pc = "idle" /\ lastOp = "Mem_Init" /\ ret = 0

\* C18, as stated: after a successful Mem_Init(n), R being n rounded up to
\* the page size, the chain is one free block that starts 8 bytes after the
\* region base and has size R - 16, prev_allocated set, and a footer of that
\* size, followed at once by the end mark (size 0, allocated).
C18_InitLayoutStated ==
    InitDone =>
        LET R == PageRound(lastArg)
            e == first_blk + (R - 16)
        IN  /\ first_blk = space_ptr + 8
            /\ Load(mem, first_blk) = (R - 16) + 2
            /\ Load(mem, e - 4) = R - 16
            /\ SizeOf(Load(mem, e)) = 0 /\ IsAlloc(Load(mem, e))
            /\ Chain(mem) = <<first_blk, e>>

\* C18, amended: the free block starts 4 bytes after the region base (its
\* payload, not its header, comes after the first double word) and has size
\* R - 8 (4 bytes of padding and the 4 bytes of the end mark are set aside);
\* the end mark is the last word of the region and holds 1.
C18_InitLayout ==
    InitDone =>
        LET R == PageRound(lastArg)
            e == first_blk + (R - 8)
        IN  /\ first_blk = space_ptr + 4
            /\ Load(mem, first_blk) = (R - 8) + 2
            /\ Load(mem, e - 4) = R - 8
            /\ e = space_ptr + R - 4
            /\ Load(mem, e) = 1
            /\ Chain(mem) = <<first_blk, e>>
\* a Mem_Init whose argument had to be rounded up has succeeded
C18_Witness ==
    /\ InitDone /\ lastArg % PageSize # 0
    /\ region = PageRound(lastArg) /\ mem # mem0

\* a step in which Mem_Dump runs: the call itself, or the iteration of the
\* scan of Mem_Alloc that skips a busy block whose predecessor is free
DumpStep ==
    \/ pc = "idle" /\ lastOp' = "Mem_Dump"
    \/ pc = "scan" /\ pc' = "scan" /\ And3(Load(mem', ptr)) = 1

\* C19: Mem_Dump leaves first_blk and every word of the region unchanged,
\* also when it is called from inside the scan of Mem_Alloc.
C19_DumpReadOnly ==
    [][DumpStep => (first_blk' = first_blk /\ SameRegion(mem', mem))]_vars
\* Mem_Dump has just run inside the scan of Mem_Alloc on a heap with blocks
C19_Witness ==
    /\ allocated_once = 1 /\ pc = "scan"
    /\ \E a \in Foreign : And3(mem[a]) = 1 /\ ptr = SkipBusy(a, mem[a])
    /\ lastDump = DumpTotals(mem, first_blk)
    /\ lastDump[1] + lastDump[2] = region - 8

\* C20: on an initialised heap every address the scan of Mem_Alloc reads
\* lies in the region, between first_blk and the end mark.
C20_ScanInRegion ==
    (allocated_once = 1 /\ pc = "scan")
        => (first_blk <= ptr /\ ptr <= space_ptr + region - 4)

====
